---- MODULE Spec2Model ----
(***************************************************************************)
(* Personal Task Manager (src/personal-task-manager/src/App.js).           *)
(*                                                                         *)
(* The App component: the tasks collection held in React state, its        *)
(* mirror in localStorage, the add/edit form flags, and the filtered and   *)
(* sorted view computed on each render.                                    *)
(*                                                                         *)
(* JavaScript values are written as follows.  A string is the sequence of  *)
(* its characters.  undefined (also: a missing key) is <<>>, null is       *)
(* <<"null">>, the ISO string of the instant t is <<"iso", t>>, the date   *)
(* string of the day d is <<"date", d>>.  The value of the tasks state is  *)
(* a record [kind, items]: kind "array" with the task objects in items, or *)
(* one of the kinds "null", "number", "object" (items empty).              *)
(***************************************************************************)
EXTENDS Integers, Sequences, FiniteSets, TLC

VARIABLES
    tasks,        \* useState([]) tasks: the in-memory collection
    filter,       \* useState('all')
    searchTerm,   \* useState('')
    showAddForm,  \* useState(false)
    editingTask,  \* useState(null): <<>> for null, <<task>> for a task
    storage,      \* localStorage entry 'personalTaskManagerTasks'
    sortedTasks,  \* the displayed list of the last render
    pending,      \* a setTasks update queued by an effect: <<>> or <<value>>
    pc,           \* where the component is in its life cycle
    now,          \* the clock read by Date.now() and new Date()
    last          \* history: the last store operation and what it did

vars == <<tasks, filter, searchTerm, showAddForm, editingTask, storage,
          sortedTasks, pending, pc, now, last>>

(***************************************************************************)
(* Bounds                                                                  *)
(***************************************************************************)
MaxTasks == 2
MaxClock == 1
MaxSortLen == 3

(***************************************************************************)
(* JavaScript values                                                       *)
(***************************************************************************)
Undefined == <<>>
Null == <<"null">>
ISO(t) == <<"iso", t>>
DateString(d) == <<"date", d>>
EmptyString == <<>>

\* a value used as a condition: '' , null and undefined are falsy
Truthy(v) == v # <<>> /\ v # Null

\* new Date(s) as a number, for ISO strings and date strings
DateMs(s) == s[2]

JsArray(items) == [kind |-> "array", items |-> items]
JsNull == [kind |-> "null", items |-> <<>>]
JsNumber == [kind |-> "number", items |-> <<>>]
JsObject == [kind |-> "object", items |-> <<>>]

\* String.prototype.toLowerCase, on the letters the model uses
LowerChar(c) ==
    CASE c = "B" -> "b"
      [] c = "F" -> "f"
      [] c = "U" -> "u"
      [] OTHER -> c

RECURSIVE toLowerCase(_)
toLowerCase(s) ==
    IF s = <<>> THEN <<>> ELSE <<LowerChar(Head(s))>> \o toLowerCase(Tail(s))

\* String.prototype.includes
includes(s, t) ==
    \E i \in 0..(Len(s) - Len(t)) : SubSeq(s, i + 1, i + Len(t)) = t

\* String.prototype.trim
RECURSIVE trimStart(_)
trimStart(s) ==
    IF s # <<>> /\ Head(s) = " " THEN trimStart(Tail(s)) ELSE s

RECURSIVE trimEnd(_)
trimEnd(s) ==
    IF s # <<>> /\ s[Len(s)] = " " THEN trimEnd(SubSeq(s, 1, Len(s) - 1)) ELSE s

trim(s) == trimEnd(trimStart(s))

(***************************************************************************)
(* JSON.stringify and JSON.parse.  The text of an object is the sequence   *)
(* of its <<key, value>> pairs in the order of its keys; a key whose value *)
(* is undefined is not written.  A task object has its keys in the order   *)
(* addTask gives them, and completedAt, once set, after them.              *)
(***************************************************************************)
TaskKeys == <<"id", "title", "description", "priority", "dueDate",
              "completed", "createdAt", "completedAt">>

StringifyObject(task) ==
    LET n == IF task.completedAt = Undefined THEN 7 ELSE 8
    IN  [i \in 1..n |-> <<TaskKeys[i], task[TaskKeys[i]]>>]

JSONstringify(value) ==
    [syntax |-> "json",
     doc |-> [kind |-> value.kind,
              items |-> [i \in 1..Len(value.items) |->
                            StringifyObject(value.items[i])]]]

Member(obj, k) ==
    IF \E i \in 1..Len(obj) : obj[i][1] = k
        THEN obj[CHOOSE i \in 1..Len(obj) : obj[i][1] = k][2]
        ELSE Undefined

ParseObject(obj) ==
    [id |-> Member(obj, "id"),
     title |-> Member(obj, "title"),
     description |-> Member(obj, "description"),
     priority |-> Member(obj, "priority"),
     dueDate |-> Member(obj, "dueDate"),
     completed |-> Member(obj, "completed"),
     createdAt |-> Member(obj, "createdAt"),
     completedAt |-> Member(obj, "completedAt")]

\* JSON.parse throws a SyntaxError on text that is not JSON
ParseThrows(text) == text.syntax # "json"

JSONparse(text) ==
    [kind |-> text.doc.kind,
     items |-> [i \in 1..Len(text.doc.items) |-> ParseObject(text.doc.items[i])]]

\* localStorage: getItem gives null for a missing entry
NoEntry == [syntax |-> "missing", doc |-> JsNull]
EmptyText == [syntax |-> "empty", doc |-> JsNull]
GarbageText == [syntax |-> "garbage", doc |-> JsNull]
JsonText(doc) == [syntax |-> "json", doc |-> doc]

(***************************************************************************)
(* The view: filteredTasks (lines 59-77) and sortedTasks (lines 86-102)    *)
(***************************************************************************)
Filters == {"all", "pending", "completed", "high", "medium", "low"}

matchesSearch(task, term) ==
    LET lowerTerm == toLowerCase(term)
    IN  \/ includes(toLowerCase(task.title), lowerTerm)
        \/ /\ Truthy(task.description)
           /\ includes(toLowerCase(task.description), lowerTerm)

matchesFilter(task, f, term) ==
    CASE f = "completed" -> task.completed /\ matchesSearch(task, term)
      [] f = "pending" -> ~task.completed /\ matchesSearch(task, term)
      [] f = "high" -> task.priority = "high" /\ matchesSearch(task, term)
      [] f = "medium" -> task.priority = "medium" /\ matchesSearch(task, term)
      [] f = "low" -> task.priority = "low" /\ matchesSearch(task, term)
      [] OTHER -> matchesSearch(task, term)

\* Array.prototype.filter: a new array, the elements kept in order
filterArray(items, f, term) ==
    SelectSeq(items, LAMBDA task : matchesFilter(task, f, term))

filteredTasks(value, f, term) == filterArray(value.items, f, term)

priorityOrder(p) ==
    CASE p = "high" -> 3
      [] p = "medium" -> 2
      [] p = "low" -> 1

\* the comparator handed to sort
compare(a, b) ==
    IF a.completed # b.completed
        THEN (IF a.completed THEN 1 ELSE -1)
    ELSE IF a.priority # b.priority
        THEN priorityOrder(b.priority) - priorityOrder(a.priority)
    ELSE IF Truthy(a.dueDate) /\ Truthy(b.dueDate)
        THEN DateMs(a.dueDate) - DateMs(b.dueDate)
    ELSE DateMs(b.createdAt) - DateMs(a.createdAt)

(***************************************************************************)
(* Array.prototype.sort.  The order it produces is fixed by the language   *)
(* only for a consistent comparator; otherwise it is whatever the engine's *)
(* algorithm yields.  Two engines' algorithms for short arrays follow.     *)
(***************************************************************************)
RECURSIVE Reverse(_)
Reverse(a) == IF a = <<>> THEN <<>> ELSE Reverse(Tail(a)) \o <<Head(a)>>

\* remove the element at position from (1-based) and put it at position to,
\* to <= from
MoveTo(a, from, to) ==
    SubSeq(a, 1, to - 1) \o <<a[from]>> \o SubSeq(a, to, from - 1)
        \o SubSeq(a, from + 1, Len(a))

\* V8 (TimSort, arrays shorter than 64): CountAndMakeRun, then
\* BinaryInsertionSort of the remaining elements
RECURSIVE CountRun(_, _, _)
CountRun(a, idx, descending) ==
    IF idx > Len(a) THEN Len(a)
    ELSE LET order == compare(a[idx], a[idx - 1])
         IN  IF (descending /\ order >= 0) \/ (~descending /\ order < 0)
                 THEN idx - 1
                 ELSE CountRun(a, idx + 1, descending)

RECURSIVE BinarySearch(_, _, _, _)
BinarySearch(a, pivot, left, right) ==
    IF left >= right THEN left
    ELSE LET mid == left + ((right - left) \div 2)
         IN  IF compare(pivot, a[mid + 1]) < 0
                 THEN BinarySearch(a, pivot, left, mid)
                 ELSE BinarySearch(a, pivot, mid + 1, right)

RECURSIVE BinaryInsertionSort(_, _)
BinaryInsertionSort(a, start) ==
    IF start >= Len(a) THEN a
    ELSE LET left == BinarySearch(a, a[start + 1], 0, start)
         IN  BinaryInsertionSort(MoveTo(a, start + 1, left + 1), start + 1)

SortV8(a) ==
    IF Len(a) < 2 THEN a
    ELSE LET descending == compare(a[2], a[1]) < 0
             runLength == CountRun(a, 3, descending)
             run == IF descending
                        THEN Reverse(SubSeq(a, 1, runLength)) \o SubSeq(a, runLength + 1, Len(a))
                        ELSE a
         IN  BinaryInsertionSort(run, runLength)

\* SpiderMonkey (merge sort, arrays shorter than 24): InsertionSort
RECURSIVE InsertionPoint(_, _, _)
InsertionPoint(a, item, j) ==
    IF j < 1 THEN 1
    ELSE IF compare(a[j], item) <= 0 THEN j + 1
    ELSE InsertionPoint(a, item, j - 1)

RECURSIVE InsertionSort(_, _)
InsertionSort(a, i) ==
    IF i > Len(a) THEN a
    ELSE InsertionSort(MoveTo(a, i, InsertionPoint(a, a[i], i - 1)), i + 1)

SortSpiderMonkey(a) == InsertionSort(a, 2)

\* the arrays filteredTasks.sort(compare) can leave in filteredTasks
SortOutcomes(a) == {SortV8(a), SortSpiderMonkey(a)}

sortedTasksOf(value, f, term) == SortOutcomes(filteredTasks(value, f, term))

\* the render body reads tasks.filter: a TypeError unless tasks is an array
RenderThrows(value) == value.kind # "array"


(***************************************************************************)
(* The store operations (lines 28-57) and the two effects (lines 12-26)    *)
(***************************************************************************)
HasId(value, id) == \E i \in 1..Len(value.items) : value.items[i].id = id

\* Array.prototype.find: the first task with the id
find(value, id) ==
    value.items[CHOOSE i \in 1..Len(value.items) :
                    /\ value.items[i].id = id
                    /\ \A j \in 1..(i - 1) : value.items[j].id # id]

\* { id: Date.now(), ...taskData, completed: false, createdAt: ... }
newTask(taskData, id, created) ==
    [id |-> id,
     title |-> taskData.title,
     description |-> taskData.description,
     priority |-> taskData.priority,
     dueDate |-> taskData.dueDate,
     completed |-> FALSE,
     createdAt |-> ISO(created),
     completedAt |-> Undefined]

\* { ...task, ...updates }
Spread(task, updates) ==
    LET Pick(k) == IF k \in DOMAIN updates THEN updates[k] ELSE task[k]
    IN  [id |-> Pick("id"),
         title |-> Pick("title"),
         description |-> Pick("description"),
         priority |-> Pick("priority"),
         dueDate |-> Pick("dueDate"),
         completed |-> Pick("completed"),
         createdAt |-> Pick("createdAt"),
         completedAt |-> Pick("completedAt")]

\* a variant that rebuilds the array with the updated tasks moved to the end
mapUpdateMovesLast(value, id, updates) ==
    JsArray(SelectSeq(value.items, LAMBDA t : t.id # id)
            \o [i \in 1..Len(SelectSeq(value.items, LAMBDA t : t.id = id)) |->
                   Spread(SelectSeq(value.items, LAMBDA t : t.id = id)[i], updates)])

\* tasks.map(task => task.id === id ? { ...task, ...updates } : task)
mapUpdate(value, id, updates) ==
    JsArray([i \in 1..Len(value.items) |->
                IF value.items[i].id = id
                    THEN Spread(value.items[i], updates)
                    ELSE value.items[i]])

\* tasks.filter(task => task.id !== id)
filterOut(value, id) ==
    JsArray(SelectSeq(value.items, LAMBDA t : t.id # id))

\* a variant that stamps completedAt on every toggle
toggleUpdatesAlwaysStamps(task, t) ==
    [completed |-> ~task.completed, completedAt |-> ISO(t)]

\* a variant that marks the task completed instead of flipping the flag
toggleUpdatesNeverClears(task, t) ==
    [completed |-> TRUE, completedAt |-> ISO(t)]

\* the updates toggleComplete hands to updateTask
toggleUpdates(task, t) ==
    [completed |-> ~task.completed,
     completedAt |-> IF ~task.completed THEN ISO(t) ELSE Null]

\* a variant that writes the last task only, a diff instead of the whole
saveTasksLastOnly(value) ==
    JSONstringify(JsArray(IF value.items = <<>> THEN <<>>
                          ELSE <<value.items[Len(value.items)]>>))

\* the save effect: localStorage.setItem(key, JSON.stringify(tasks))
saveTasks(value) == JSONstringify(value)

\* a variant that reads the entry after the save effect has replaced it
loadTasksAfterSave(saved) ==
    IF saved.syntax \in {"missing", "empty"} THEN <<>>
    ELSE IF ParseThrows(saved) THEN <<>>
    ELSE <<JSONparse(JSONstringify(JsArray(<<>>)))>>

\* the load effect: the setTasks call it makes, if any
loadTasks(saved) ==
    IF saved.syntax \in {"missing", "empty"} THEN <<>>
    ELSE IF ParseThrows(saved) THEN <<>>
    ELSE <<JSONparse(saved)>>

(***************************************************************************)
(* History: the last store operation.  known says whether a task had the   *)
(* operation's id when it was called and raised whether it ended in an     *)
(* uncaught exception.  For toggleComplete, id is the id it was called     *)
(* with, pre is the task the id resolved to before the call, written       *)
(* <<completed, completedAt>>, and pre2 is the same for the call before,   *)
(* when that was a toggleComplete of the same id too.  After startup,      *)
(* opened is the entry localStorage held when the page was opened.         *)
(***************************************************************************)
Snap(value, id) ==
    IF HasId(value, id)
        THEN <<find(value, id).completed, find(value, id).completedAt>>
        ELSE <<>>

Opened(entry) ==
    [op |-> "startup", known |-> FALSE, raised |-> FALSE, id |-> 0,
     pre |-> <<>>, pre2 |-> <<>>, opened |-> entry]

Did(op, id) ==
    [op |-> op, known |-> HasId(tasks, id), raised |-> FALSE, id |-> 0,
     pre |-> <<>>, pre2 |-> <<>>, opened |-> NoEntry]

DidToggle(id) ==
    [op |-> "toggleComplete", known |-> HasId(tasks, id),
     raised |-> ~HasId(tasks, id), id |-> id,
     pre |-> Snap(tasks, id),
     pre2 |-> IF last.op = "toggleComplete" /\ last.id = id /\ HasId(tasks, id)
                  THEN last.pre ELSE <<>>,
     opened |-> NoEntry]

\* setTasks(value) in an event handler: the state is replaced, the
\* component is rendered again and the save effect runs, all before the
\* next event
SetTasks(value) ==
    /\ tasks' = value
    /\ sortedTasks' \in sortedTasksOf(value, filter, searchTerm)
    /\ storage' = saveTasks(value)

addTask(taskData) ==
    /\ Len(tasks.items) < MaxTasks
    /\ LET value == JsArray(Append(tasks.items, newTask(taskData, now, now)))
       IN  /\ SetTasks(value)
           /\ last' = Did("addTask", now)
           /\ now' = now
    /\ showAddForm' = FALSE

updateTask(id, updates) ==
    /\ SetTasks(mapUpdate(tasks, id, updates))
    /\ last' = IF "completed" \in DOMAIN updates
                   THEN DidToggle(id)
                   ELSE Did("updateTask", id)
    /\ now' = now

deleteTask(id, confirmed) ==
    /\ IF confirmed
           THEN SetTasks(filterOut(tasks, id))
           ELSE UNCHANGED <<tasks, sortedTasks, storage>>
    /\ last' = Did(IF confirmed THEN "deleteTask" ELSE "deleteDeclined", id)
    /\ now' = now

\* task.completed on the undefined that find returns is a TypeError
toggleComplete(id) ==
    IF HasId(tasks, id)
        THEN updateTask(id, toggleUpdates(find(tasks, id), now))
        ELSE /\ last' = DidToggle(id)
             /\ UNCHANGED <<tasks, sortedTasks, storage, now>>


(***************************************************************************)
(* Inputs                                                                  *)
(***************************************************************************)
Buy == <<"B", "u", "y">>
Fix == <<"f", "i", "x">>
Bug == <<"b", "U", "g">>
Blank == <<" ">>

\* what the form can submit: formData always has the four keys
Draft(t, d, p, due) == [title |-> t, description |-> d, priority |-> p, dueDate |-> due]

Drafts ==
    {Draft(Buy, EmptyString, "high", EmptyString),
     Draft(Fix, Bug, "medium", DateString(1)),
     Draft(Blank, EmptyString, "low", EmptyString)}

\* the options of the filter select that the user picks in the model
FilterChoices == Filters \cap {"all", "high"}

SearchTerms == {EmptyString, <<"U", "g">>}

Ids == 0..MaxClock

\* what the entry can hold that this program did not write
ForeignEntries ==
    {NoEntry, EmptyText, GarbageText, JsonText(JsNull), JsonText(JsNumber),
     JsonText(JsObject)}

(***************************************************************************)
(* Startup: the first render, the two effects in the order they are        *)
(* declared, the render the load effect's setTasks asks for, and the save  *)
(* effect after it                                                         *)
(***************************************************************************)
Fresh(entry) ==
    /\ tasks = JsArray(<<>>)
    /\ filter = "all"
    /\ searchTerm = EmptyString
    /\ showAddForm = FALSE
    /\ editingTask = <<>>
    /\ sortedTasks = <<>>
    /\ pending = <<>>
    /\ pc = "start"
    /\ last = Opened(entry)

Init ==
    /\ storage \in ForeignEntries
    /\ now = 0
    /\ Fresh(storage)

Mount ==
    /\ pc = "start"
    /\ sortedTasks' \in sortedTasksOf(tasks, filter, searchTerm)
    /\ pc' = "mounted"
    /\ UNCHANGED <<tasks, filter, searchTerm, showAddForm, editingTask, storage,
                   pending, now, last>>

LoadEffect ==
    /\ pc = "mounted"
    /\ pending' = loadTasks(storage)
    /\ pc' = "loaded"
    /\ UNCHANGED <<tasks, filter, searchTerm, showAddForm, editingTask, storage,
                   sortedTasks, now, last>>

SaveEffect ==
    /\ pc \in {"loaded", "rendered"}
    /\ storage' = saveTasks(tasks)
    /\ pc' = IF pc = "loaded" /\ pending # <<>> THEN "saved" ELSE "idle"
    /\ UNCHANGED <<tasks, filter, searchTerm, showAddForm, editingTask,
                   sortedTasks, pending, now, last>>

Rerender ==
    /\ pc = "saved"
    /\ tasks' = pending[1]
    /\ pending' = <<>>
    /\ IF RenderThrows(pending[1])
           THEN pc' = "crashed" /\ sortedTasks' = sortedTasks
           ELSE /\ pc' = "rendered"
                /\ sortedTasks' \in sortedTasksOf(pending[1], filter, searchTerm)
    /\ UNCHANGED <<filter, searchTerm, showAddForm, editingTask, storage, now, last>>

\* the page is opened again: the component state is new, the entry stays
Reload ==
    /\ pc \in {"idle", "crashed"}
    /\ tasks' = JsArray(<<>>)
    /\ filter' = "all"
    /\ searchTerm' = EmptyString
    /\ showAddForm' = FALSE
    /\ editingTask' = <<>>
    /\ sortedTasks' = <<>>
    /\ pending' = <<>>
    /\ pc' = "start"
    /\ last' = Opened(storage)
    /\ UNCHANGED <<storage, now>>

(***************************************************************************)
(* User events                                                             *)
(***************************************************************************)
FormShown == showAddForm \/ editingTask # <<>>

\* a state change that is not setTasks: a render, no save
Render == sortedTasks' \in sortedTasksOf(tasks, filter', searchTerm')

ClickAdd ==
    /\ pc = "idle"
    /\ showAddForm' = TRUE
    /\ UNCHANGED <<tasks, filter, searchTerm, editingTask, storage, sortedTasks,
                   pending, pc, now, last>>

ClickEdit ==
    /\ pc = "idle"
    /\ \E i \in 1..Len(sortedTasks) : editingTask' = <<sortedTasks[i]>>
    /\ UNCHANGED <<tasks, filter, searchTerm, showAddForm, storage, sortedTasks,
                   pending, pc, now, last>>

Cancel ==
    /\ pc = "idle"
    /\ FormShown
    /\ showAddForm' = FALSE
    /\ editingTask' = <<>>
    /\ UNCHANGED <<tasks, filter, searchTerm, storage, sortedTasks, pending, pc,
                   now, last>>

\* handleSubmit, then onSubmit: the edit branch when editingTask is set
Submit ==
    /\ pc = "idle"
    /\ FormShown
    /\ \E formData \in Drafts :
          IF trim(formData.title) = EmptyString
              THEN UNCHANGED <<tasks, showAddForm, editingTask, storage,
                               sortedTasks, now, last>>
          ELSE IF editingTask # <<>>
              THEN /\ updateTask(editingTask[1].id, formData)
                   /\ editingTask' = <<>>
                   /\ showAddForm' = showAddForm
              ELSE /\ addTask(formData)
                   /\ editingTask' = editingTask
    /\ UNCHANGED <<filter, searchTerm, pending, pc>>

ClickToggle ==
    /\ pc = "idle"
    /\ \E i \in 1..Len(sortedTasks) : toggleComplete(sortedTasks[i].id)
    /\ UNCHANGED <<filter, searchTerm, showAddForm, editingTask, pending, pc>>

ClickDelete ==
    /\ pc = "idle"
    /\ \E i \in 1..Len(sortedTasks), confirmed \in BOOLEAN :
          deleteTask(sortedTasks[i].id, confirmed)
    /\ UNCHANGED <<filter, searchTerm, showAddForm, editingTask, pending, pc>>

ChangeFilter ==
    /\ pc = "idle"
    /\ filter' \in FilterChoices
    /\ searchTerm' = searchTerm
    /\ Render
    /\ UNCHANGED <<tasks, showAddForm, editingTask, storage, pending, pc, now, last>>

ChangeSearch ==
    /\ pc = "idle"
    /\ searchTerm' \in SearchTerms
    /\ filter' = filter
    /\ Render
    /\ UNCHANGED <<tasks, showAddForm, editingTask, storage, pending, pc, now, last>>

Tick ==
    /\ now < MaxClock
    /\ now' = now + 1
    /\ UNCHANGED <<tasks, filter, searchTerm, showAddForm, editingTask, storage,
                   sortedTasks, pending, pc, last>>

Next ==
    \/ Mount
    \/ LoadEffect
    \/ SaveEffect
    \/ Rerender
    \/ Reload
    \/ ClickAdd
    \/ ClickEdit
    \/ Cancel
    \/ Submit
    \/ ClickToggle
    \/ ClickDelete
    \/ ChangeFilter
    \/ ChangeSearch
    \/ Tick

Spec == Init /\ [][Next]_vars


(***************************************************************************)
(* The store contract: the four operations called with any id, known or    *)
(* not, around the same startup and view steps                             *)
(***************************************************************************)
ValidDrafts == {d \in Drafts : trim(d.title) # EmptyString}

CallAdd ==
    /\ pc = "idle"
    /\ \E taskData \in ValidDrafts : addTask(taskData)
    /\ UNCHANGED <<filter, searchTerm, editingTask, pending, pc>>

CallUpdate ==
    /\ pc = "idle"
    /\ \E id \in Ids, updates \in ValidDrafts : updateTask(id, updates)
    /\ UNCHANGED <<filter, searchTerm, showAddForm, editingTask, pending, pc>>

CallToggle ==
    /\ pc = "idle"
    /\ \E id \in Ids : toggleComplete(id)
    /\ UNCHANGED <<filter, searchTerm, showAddForm, editingTask, pending, pc>>

CallDelete ==
    /\ pc = "idle"
    /\ \E id \in Ids, confirmed \in BOOLEAN : deleteTask(id, confirmed)
    /\ UNCHANGED <<filter, searchTerm, showAddForm, editingTask, pending, pc>>

NextStore ==
    \/ Mount
    \/ LoadEffect
    \/ SaveEffect
    \/ Rerender
    \/ Reload
    \/ CallAdd
    \/ CallUpdate
    \/ CallToggle
    \/ CallDelete
    \/ ChangeFilter
    \/ Tick

SpecStore == Init /\ [][NextStore]_vars

(***************************************************************************)
(* The collection and its views: the operations that add, change and       *)
(* remove tasks, and both inputs of the view                               *)
(***************************************************************************)
NextView ==
    \/ Mount
    \/ LoadEffect
    \/ SaveEffect
    \/ Rerender
    \/ Reload
    \/ CallAdd
    \/ CallUpdate
    \/ CallDelete
    \/ ChangeFilter
    \/ ChangeSearch
    \/ Tick

SpecView == Init /\ [][NextView]_vars


(***************************************************************************)
(* The view alone: the page has loaded a collection of up to MaxSortLen    *)
(* tasks, created one after the other, and the user changes the filter and *)
(* the search term                                                         *)
(***************************************************************************)
SortShapes ==
    [priority : {"high", "low"},
     dueDate : {EmptyString, DateString(1), DateString(2)},
     completed : BOOLEAN]

ShapedTask(shape, created) ==
    [id |-> created,
     title |-> Buy,
     description |-> EmptyString,
     priority |-> shape.priority,
     dueDate |-> shape.dueDate,
     completed |-> shape.completed,
     createdAt |-> ISO(created),
     completedAt |-> IF shape.completed THEN ISO(created) ELSE Undefined]

\* the collections of up to max tasks, the i-th created at the instant i
SortLists(max) ==
    UNION {{[i \in 1..n |-> ShapedTask(shapes[i], i)] : shapes \in [1..n -> SortShapes]} :
              n \in 0..max}

InitSort ==
    /\ \E list \in SortLists(MaxSortLen) :
          /\ tasks = JsArray(list)
          /\ now = Len(list)
    /\ storage = saveTasks(tasks)
    /\ last = Opened(storage)
    /\ filter = "all"
    /\ searchTerm = EmptyString
    /\ showAddForm = FALSE
    /\ editingTask = <<>>
    /\ sortedTasks \in sortedTasksOf(tasks, filter, searchTerm)
    /\ pending = <<>>
    /\ pc = "idle"

NextSort ==
    \/ ChangeFilter
    \/ ChangeSearch

SpecSort == InitSort /\ [][NextSort]_vars


(***************************************************************************)
(* Properties                                                              *)
(***************************************************************************)
Present(v) == v # Undefined /\ v # Null

\* null and a missing key read alike
Absent(v) == IF v = Null THEN Undefined ELSE v

Mutations == {"addTask", "updateTask", "toggleComplete", "deleteTask"}

Settled == pc = "idle" /\ tasks.kind = "array"

\* C1: every task of the collection has a completedAt timestamp exactly if
\* its completed flag is true.
CompletedAtIffCompleted ==
    tasks.kind = "array" =>
        \A i \in 1..Len(tasks.items) :
            Present(tasks.items[i].completedAt) <=> tasks.items[i].completed

\* C1 witness: an edit has been submitted for a task that was completed
\* before, next to a task that was completed and reopened.
EditedACompletedTask ==
    /\ Settled
    /\ last.op = "updateTask" /\ last.known
    /\ \E i \in 1..Len(tasks.items) :
          tasks.items[i].completed /\ Present(tasks.items[i].completedAt)
    /\ \E i \in 1..Len(tasks.items) :
          ~tasks.items[i].completed /\ tasks.items[i].completedAt = Null

\* C2: no two tasks of the collection have the same id, whatever the clock
\* returns to addTask.
UniqueIds ==
    tasks.kind = "array" =>
        \A i, j \in 1..Len(tasks.items) :
            i # j => tasks.items[i].id # tasks.items[j].id

\* C3: after every mutating event has been processed, the entry in
\* localStorage is the serialization of the whole in-memory collection:
\* read back, it is the collection, task by task and in the same order.
PersistedIsWholeCollection ==
    (pc = "idle" /\ last.op \in Mutations /\ ~last.raised) =>
        /\ storage.syntax = "json"
        /\ JSONparse(storage) = tasks

\* C3 witness: a confirmed delete has left a task that was toggled before, so
\* the entry holds a task with its completedAt key.
PersistedAfterDelete ==
    /\ pc = "idle"
    /\ last.op = "deleteTask" /\ last.known
    /\ Len(tasks.items) >= 1
    /\ \E i \in 1..Len(tasks.items) : tasks.items[i].completedAt # Undefined

NotASequence(entry) ==
    \/ entry.syntax # "json"
    \/ entry.doc.kind # "array"

\* C4: when the page is opened on an entry that is not a serialized task
\* sequence (none, unparseable text, or the text of null, a number or an
\* object), startup ends with an empty collection and without a crash.
StartupSurvivesBadEntry ==
    (last.op = "startup" /\ NotASequence(last.opened) /\ pc \in {"idle", "crashed"}) =>
        /\ pc = "idle"
        /\ tasks = JsArray(<<>>)

\* C5: updateTask, toggleComplete and a confirmed deleteTask called with an
\* id no task has leave the collection as it was and raise nothing.
UnknownIdIsNoOp ==
    [][(last'.op \in {"updateTask", "toggleComplete", "deleteTask"} /\ ~last'.known)
          => (tasks' = tasks /\ ~last'.raised)]_vars

DoubleToggle ==
    /\ Settled
    /\ last.op = "toggleComplete"
    /\ last.pre2 # <<>>

\* C6 as stated: toggleComplete(id) applied twice in a row leaves the task's
\* completed flag and its completedAt equal to what they were before the
\* first toggle (null and a missing key taken as the same).
ToggleTwiceRestoresBoth ==
    DoubleToggle =>
        /\ Snap(tasks, last.id)[1] = last.pre2[1]
        /\ Absent(Snap(tasks, last.id)[2]) = Absent(last.pre2[2])

\* C6 as amended: toggleComplete(id) applied twice in a row leaves the
\* completed flag of the task the id resolves to as it was, and its
\* completedAt present exactly if it was present; the timestamp of a task
\* that started completed is replaced by one that is not earlier.
ToggleTwiceRestoresFlag ==
    DoubleToggle =>
        /\ Snap(tasks, last.id)[1] = last.pre2[1]
        /\ Present(Snap(tasks, last.id)[2]) <=> Present(last.pre2[2])
        /\ Present(last.pre2[2]) =>
              DateMs(Snap(tasks, last.id)[2]) >= DateMs(last.pre2[2])

\* C6 witness: a completed task has been toggled twice while the clock moved
\* on, and carries a later timestamp than the one it started with.
ToggledTwiceFromCompleted ==
    /\ DoubleToggle
    /\ last.pre2[1]
    /\ Snap(tasks, last.id)[2] # last.pre2[2]

\* C7: in the displayed list no completed task comes before an incomplete
\* one, and of two tasks with the same completed flag and priority that
\* both have a due date, the one due earlier comes first.
DisplayOrder ==
    Settled =>
        \A i, j \in 1..Len(sortedTasks) :
            i < j =>
                LET a == sortedTasks[i]
                    b == sortedTasks[j]
                IN  /\ ~(a.completed /\ ~b.completed)
                    /\ (/\ a.completed = b.completed
                        /\ a.priority = b.priority
                        /\ Truthy(a.dueDate) /\ Truthy(b.dueDate))
                          => DateMs(a.dueDate) <= DateMs(b.dueDate)

\* C8: the add-form flag and a non-null editing task are never both set.
FormIsAddingOrEditing == ~(showAddForm /\ editingTask # <<>>)

\* what a step may do to the stored order: nothing, append one task, change
\* tasks in place, or remove tasks
OrderKept(before, after) ==
    \/ after = before
    \/ /\ Len(after) = Len(before) + 1
       /\ SubSeq(after, 1, Len(before)) = before
    \/ /\ Len(after) = Len(before)
       /\ \A i \in 1..Len(before) :
             /\ after[i].id = before[i].id
             /\ after[i].createdAt = before[i].createdAt
    \/ /\ Len(after) < Len(before)
       /\ \E keep \in SUBSET (1..Len(before)) :
             /\ Cardinality(keep) = Len(after)
             /\ \A i \in 1..Len(after) :
                   after[i] = before[CHOOSE k \in keep :
                                        Cardinality({m \in keep : m < k}) = i - 1]

StartupKeepsPersisted ==
    (pc = "idle" /\ last.op = "startup" /\ ~NotASequence(last.opened)) =>
        /\ tasks = JSONparse(last.opened)
        /\ storage = last.opened

\* C10 witness: startup has completed on an entry of two tasks, one of them
\* completed.
StartedOnTwoTasks ==
    /\ pc = "idle"
    /\ last.op = "startup"
    /\ ~NotASequence(last.opened)
    /\ Len(last.opened.doc.items) = 2
    /\ \E i \in 1..Len(tasks.items) : tasks.items[i].completed


====
